---- MODULE Spec2Model ----
(***************************************************************************)
(* State-machine model of meep_adjoint.OptimizationProblem                 *)
(* (src/meep_adjoint/optimization_problem.py): the facade that ties design *)
(* updates to forward / adjoint runs of the TimeStepper.                   *)
(*                                                                         *)
(* The TimeStepper, the Basis and the design-function object are imported  *)
(* by the file but defined elsewhere in the package; they are modelled     *)
(* from the written specification (sections 3, 4.1, 4.3 and 5).            *)
(***************************************************************************)
EXTENDS Integers, Sequences, FiniteSets, TLC

VARIABLES
    beta_vector,    \* self.beta_vector
    design_coeffs,  \* coefficients held by self.design_function
    state,          \* self.stepper.state
    fwd_data,       \* design the forward field data in the recorders belongs to
    adj_data,       \* gradient assembled by the last completed adjoint run
    fwd_fresh,      \* history: a forward run completed since the last update
    last            \* history: the most recent operation and its outcome

vars == <<beta_vector, design_coeffs, state, fwd_data, adj_data, fwd_fresh, last>>

----------------------------------------------------------------------------
(* Bounds of the model *)

\* basis dimension (length of a coefficient vector)
Dim == 1

\* the values a coefficient or a design-function sample takes in the model
CoefValues == {0, 1}

----------------------------------------------------------------------------
(* Values *)

\* Python's None
None == [t |-> "None"]

\* an attribute that was never assigned
NoAttr == [t |-> "unset"]

\* recorders that no run has filled yet
Empty == [t |-> "empty"]

\* a coefficient vector (np.array of length Dim)
Vec(v) == [t |-> "vec", v |-> v]

Coeffs == {Vec(v) : v \in [1..Dim -> CoefValues]}

\* a design function, given by its samples at the Dim+1 nodes of the grid
Fun(f) == [t |-> "fun", f |-> f]

DesignFns == {Fun(f) : f \in [1..(Dim + 1) -> CoefValues]}

\* basis.project: the coefficient of element k is the sample at its left node
project(d) == Vec([k \in 1..Dim |-> d.f[k]])

\* basis expansion: piecewise constant, the last node continues the last element
expand(c) == Fun([k \in 1..(Dim + 1) |-> IF k <= Dim THEN c.v[k] ELSE c.v[Dim]])

\* names bound in the module's global namespace (imports and definitions)
ModuleGlobals ==
    {"os", "inspect", "mp", "DFTCell", "ObjectiveFunction", "TimeStepper",
     "FiniteElementBasis", "rescale_sources", "E_CPTS", "OptimizationProblem",
     "plot_mesh"}

\* a global name lookup succeeds only for a bound name (else NameError)
NameResolves(n) == n \in ModuleGlobals

\* result of stepper.run('forward'): value and quantities for the design run
Fq(on) == [t |-> "fq", on |-> on]

\* result of stepper.run('adjoint'): gradient assembled from the forward
\* fields in the recorders and the adjoint fields of the current design
Gradf(fwd, adj) == [t |-> "gradf", fwd |-> fwd, adj |-> adj]

\* outcomes of an operation
Return(fq, gradf) == [kind |-> "return", exc |-> "", fq |-> fq, gradf |-> gradf]

Raise(e) == [kind |-> "raise", exc |-> e, fq |-> None, gradf |-> None]

RunStates == {"reset", "forward.complete", "adjoint.complete"}

----------------------------------------------------------------------------
(* The object: the facade's fields and those of the stepper it owns *)

Self ==
    [beta_vector |-> beta_vector, design_coeffs |-> design_coeffs,
     state |-> state, fwd_data |-> fwd_data, adj_data |-> adj_data,
     fwd_fresh |-> fwd_fresh]

\* Python truth value of the design argument (a function object, or None)
Truthy(x) == x # None

\* the new coefficient vector: the projection of design when given
NewBeta(bv, d) == IF Truthy(d) THEN project(d) ELSE bv

\* update_design without its last statement (no reset of the stepper)
update_design_noreset(s, bv, d) ==
    [s EXCEPT !.beta_vector = NewBeta(bv, d),
              !.design_coeffs = NewBeta(bv, d)]

\* update_design resetting the stepper only when the coefficients change
update_design_ifchanged(s, bv, d) ==
    [s EXCEPT !.beta_vector = NewBeta(bv, d),
              !.design_coeffs = NewBeta(bv, d),
              !.state = IF NewBeta(bv, d) = s.design_coeffs THEN @ ELSE "reset",
              !.fwd_fresh = IF NewBeta(bv, d) = s.design_coeffs THEN @ ELSE FALSE]

\* OptimizationProblem.update_design
update_design(s, bv, d) ==
    [s EXCEPT !.beta_vector = NewBeta(bv, d),
              !.design_coeffs = NewBeta(bv, d),
              !.state = "reset",
              !.fwd_fresh = FALSE]

\* the test that decides whether __call__ updates the design: "and" for "or"
WantsUpdate_and(bv, d) == (bv # None) /\ (d # None)

\* __call__ updating the design on every call
WantsUpdate_always(bv, d) == TRUE

\* the test that decides whether __call__ updates the design
WantsUpdate(bv, d) == (bv # None) \/ (d # None)

\* the sanity check with the state test left out of its condition
SanityCheck_nostate(need_value, st) ==
    [raise |-> FALSE, warn |-> FALSE, need_value |-> need_value]

\* the sanity check testing need_value alone
SanityCheck_always(need_value, st) ==
    IF need_value = FALSE
      THEN IF NameResolves("warnings")
             THEN [raise |-> FALSE, warn |-> TRUE, need_value |-> TRUE]
             ELSE [raise |-> TRUE, warn |-> FALSE, need_value |-> need_value]
      ELSE [raise |-> FALSE, warn |-> FALSE, need_value |-> need_value]

\* the sanity check in a module that imports warnings
SanityCheck_imported(need_value, st) ==
    IF need_value = FALSE /\ st = "reset"
      THEN [raise |-> FALSE, warn |-> TRUE, need_value |-> TRUE]
      ELSE [raise |-> FALSE, warn |-> FALSE, need_value |-> need_value]

\* the sanity check of __call__: the name warnings is looked up when, and
\* only when, the condition holds
SanityCheck(need_value, st) ==
    IF need_value = FALSE /\ st = "reset"
      THEN IF NameResolves("warnings")
             THEN [raise |-> FALSE, warn |-> TRUE, need_value |-> TRUE]
             ELSE [raise |-> TRUE, warn |-> FALSE, need_value |-> need_value]
      ELSE [raise |-> FALSE, warn |-> FALSE, need_value |-> need_value]

\* whether a run completes: the Run Driver's execution must succeed, and an
\* adjoint run needs the quantities of some forward run to build its source
RunSucceeds(s, job, ok) == ok /\ (job = "adjoint" => s.fwd_data # Empty)

\* TimeStepper.run(job); ok is whether the Run Driver's execution succeeds.
\* A failed run changes nothing; a completed run overwrites the recorders
\* of its kind and moves the state to <job>.complete.
StepperRun(s, job, ok) ==
    IF ~ok THEN s
    ELSE IF job = "forward"
      THEN [s EXCEPT !.state = "forward.complete",
                     !.fwd_data = s.design_coeffs,
                     !.fwd_fresh = TRUE]
      ELSE [s EXCEPT !.state = "adjoint.complete",
                     !.adj_data = Gradf(s.fwd_data, s.design_coeffs)]

\* one entry of the run log of a call
RunEntry(job, ok, s) == [job |-> job, ok |-> ok, at |-> s.state, on |-> s.design_coeffs]

\* the forward run is driven when, and only when, the state is reset
DrivesForward_onreset(need_value, st) == need_value /\ st = "reset"

\* whether __call__ drives the forward run: need_value alone decides, the
\* state of the stepper is not consulted
DrivesForward(need_value, st) == need_value

\* whether __call__ drives the adjoint run: need_gradient alone decides
DrivesAdjoint(need_gradient, st) == need_gradient

\* __call__ with its two run statements in the other order: adjoint first
call_adjoint_first(s, bv, d, nv, ng, fok, aok) ==
    LET upd   == WantsUpdate(bv, d)
        s1    == IF upd THEN update_design(s, bv, d) ELSE s
        chk   == SanityCheck(nv, s1.state)
        runA  == ~chk.raise /\ DrivesAdjoint(ng, s1.state)
        adone == RunSucceeds(s1, "adjoint", aok)
        s2    == IF runA THEN StepperRun(s1, "adjoint", adone) ELSE s1
        failA == runA /\ ~adone
        gradf == IF runA /\ adone THEN s2.adj_data ELSE None
        runF  == ~chk.raise /\ ~failA /\ DrivesForward(chk.need_value, s2.state)
        fdone == RunSucceeds(s2, "forward", fok)
        s3    == IF runF THEN StepperRun(s2, "forward", fdone) ELSE s2
        failF == runF /\ ~fdone
        fq    == IF runF /\ fdone THEN Fq(s3.fwd_data) ELSE None
    IN  [self |-> s3,
         log  |-> [op |-> "__call__",
                   beta_arg |-> bv,
                   has_design |-> d # None,
                   need_value |-> nv,
                   need_gradient |-> ng,
                   updated |-> upd,
                   pre_state |-> s.state,
                   mid_state |-> s1.state,
                   warned |-> chk.warn,
                   runs |-> (IF runA THEN <<RunEntry("adjoint", adone, s1)>> ELSE <<>>)
                            \o (IF runF THEN <<RunEntry("forward", fdone, s2)>> ELSE <<>>),
                   out |-> IF chk.raise THEN Raise("NameError")
                           ELSE IF failF \/ failA THEN Raise("RunFailure")
                           ELSE Return(fq, gradf)]]

\* OptimizationProblem.__call__: the object after the call and the call's log
call(s, bv, d, nv, ng, fok, aok) ==
    LET upd   == WantsUpdate(bv, d)
        s1    == IF upd THEN update_design(s, bv, d) ELSE s
        chk   == SanityCheck(nv, s1.state)
        runF  == ~chk.raise /\ DrivesForward(chk.need_value, s1.state)
        fdone == RunSucceeds(s1, "forward", fok)
        s2    == IF runF THEN StepperRun(s1, "forward", fdone) ELSE s1
        failF == runF /\ ~fdone
        fq    == IF runF /\ fdone THEN Fq(s2.fwd_data) ELSE None
        runA  == ~chk.raise /\ ~failF /\ DrivesAdjoint(ng, s2.state)
        adone == RunSucceeds(s2, "adjoint", aok)
        s3    == IF runA THEN StepperRun(s2, "adjoint", adone) ELSE s2
        failA == runA /\ ~adone
        gradf == IF runA /\ adone THEN s3.adj_data ELSE None
    IN  [self |-> s3,
         log  |-> [op |-> "__call__",
                   beta_arg |-> bv,
                   has_design |-> d # None,
                   need_value |-> nv,
                   need_gradient |-> ng,
                   updated |-> upd,
                   pre_state |-> s.state,
                   mid_state |-> s1.state,
                   warned |-> chk.warn,
                   runs |-> (IF runF THEN <<RunEntry("forward", fdone, s1)>> ELSE <<>>)
                            \o (IF runA THEN <<RunEntry("adjoint", adone, s2)>> ELSE <<>>),
                   out |-> IF chk.raise THEN Raise("NameError")
                           ELSE IF failF \/ failA THEN Raise("RunFailure")
                           ELSE Return(fq, gradf)]]

\* the log of a direct update_design call
UpdateLog(s, bv, d) ==
    [op |-> "update_design",
     beta_arg |-> bv,
     has_design |-> d # None,
     need_value |-> FALSE,
     need_gradient |-> FALSE,
     updated |-> TRUE,
     pre_state |-> s.state,
     mid_state |-> update_design(s, bv, d).state,
     warned |-> FALSE,
     runs |-> <<>>,
     out |-> Return(None, None)]

InitLog ==
    [op |-> "__init__", beta_arg |-> None, has_design |-> FALSE,
     need_value |-> FALSE, need_gradient |-> FALSE, updated |-> FALSE,
     pre_state |-> "reset", mid_state |-> "reset", warned |-> FALSE,
     runs |-> <<>>, out |-> Return(None, None)]

----------------------------------------------------------------------------
(* Specification *)

Assign(s, log) ==
    /\ beta_vector' = s.beta_vector
    /\ design_coeffs' = s.design_coeffs
    /\ state' = s.state
    /\ fwd_data' = s.fwd_data
    /\ adj_data' = s.adj_data
    /\ fwd_fresh' = s.fwd_fresh
    /\ last' = log

\* after __init__(..., beta_vector, design_function): the design function is
\* the caller's, the beta_vector argument is not stored, the stepper is fresh
Init ==
    /\ beta_vector = NoAttr
    /\ design_coeffs \in Coeffs
    /\ state = "reset"
    /\ fwd_data = Empty
    /\ adj_data = Empty
    /\ fwd_fresh = FALSE
    /\ \E b \in Coeffs : last = [InitLog EXCEPT !.beta_arg = b]

\* a direct call of update_design(beta_vector, design)
UpdateDesign ==
    \E bv \in Coeffs \cup {None}, d \in DesignFns \cup {None} :
        Assign(update_design(Self, bv, d), UpdateLog(Self, bv, d))

\* a call of __call__(beta_vector, design, need_value, need_gradient)
Query ==
    \E bv \in Coeffs \cup {None}, d \in DesignFns \cup {None},
       nv \in BOOLEAN, ng \in BOOLEAN, fail \in {"none", "forward", "adjoint"} :
        LET r == call(Self, bv, d, nv, ng, fail # "forward", fail # "adjoint")
        IN  Assign(r.self, r.log)

Next == UpdateDesign \/ Query

Spec == Init /\ [][Next]_vars

TypeOK ==
    /\ beta_vector \in Coeffs \cup {None, NoAttr}
    /\ design_coeffs \in Coeffs \cup {None}
    /\ state \in RunStates
    /\ fwd_data \in Coeffs \cup {None, Empty}
    /\ fwd_fresh \in BOOLEAN
    /\ last.op \in {"__init__", "update_design", "__call__"}

----------------------------------------------------------------------------
(* The other entry points: get_fdf_funcs and visualize *)

\* get_fdf_funcs()._f(x): __call__(beta_vector = x, need_gradient = False),
\* of which it returns fq[0]
f_func(s, x, fok, aok) ==
    LET r == call(s, x, None, TRUE, FALSE, fok, aok)
    IN  [self |-> r.self,
         log  |-> [r.log EXCEPT !.op = "f_func", !.beta_arg = x]]

\* get_fdf_funcs()._df(x): __call__(need_value = False); x is not used
df_func(s, x, fok, aok) ==
    LET r == call(s, None, None, FALSE, TRUE, fok, aok)
    IN  [self |-> r.self,
         log  |-> [r.log EXCEPT !.op = "df_func", !.beta_arg = x]]

\* TimeStepper.prepare(job), as visualize relies on it: it leaves the
\* stepper in a state whose name ends with '.prepared'
StepperPrepare(s, job) ==
    [s EXCEPT !.state = IF job = "forward" THEN "forward.prepared"
                        ELSE "adjoint.prepared"]

\* OptimizationProblem.visualize(id): prepares the forward run of a reset
\* stepper, then plots; with an id it looks up the name plt
visualize(s, has_id) ==
    LET s1 == IF s.state = "reset" THEN StepperPrepare(s, "forward") ELSE s
    IN  [self |-> s1,
         log  |-> [op |-> "visualize",
                   beta_arg |-> None,
                   has_design |-> FALSE,
                   need_value |-> FALSE,
                   need_gradient |-> FALSE,
                   updated |-> FALSE,
                   pre_state |-> s.state,
                   mid_state |-> s1.state,
                   warned |-> FALSE,
                   runs |-> <<>>,
                   out |-> IF has_id /\ ~NameResolves("plt")
                           THEN Raise("NameError")
                           ELSE Return(None, None)]]

\* a call of the f_func returned by get_fdf_funcs
FFunc ==
    \E x \in Coeffs \cup {None}, fail \in {"none", "forward"} :
        LET r == f_func(Self, x, fail # "forward", TRUE)
        IN  Assign(r.self, r.log)

\* a call of the df_func returned by get_fdf_funcs
DfFunc ==
    \E x \in Coeffs \cup {None}, fail \in {"none", "adjoint"} :
        LET r == df_func(Self, x, TRUE, fail # "adjoint")
        IN  Assign(r.self, r.log)

\* a call of visualize(id)
Visualize ==
    \E has_id \in BOOLEAN :
        LET r == visualize(Self, has_id)
        IN  Assign(r.self, r.log)

NextFdf == UpdateDesign \/ Query \/ FFunc \/ DfFunc

\* updates, queries and the callables of get_fdf_funcs
SpecFdf == Init /\ [][NextFdf]_vars

NextViz == UpdateDesign \/ Query \/ Visualize

\* updates, queries and visualize
SpecViz == Init /\ [][NextViz]_vars

NextAll == UpdateDesign \/ Query \/ FFunc \/ DfFunc \/ Visualize

\* every entry point of the class
SpecAll == Init /\ [][NextAll]_vars

----------------------------------------------------------------------------
(* Properties *)

IsQuery == last.op = "__call__"

Returned == last.out.kind = "return"

\* the call ended because a Run Driver execution failed
DriverFailed == last.out.kind = "raise" /\ last.out.exc = "RunFailure"

\* the kinds of the runs the last call drove, in order
RunJobs(log) == [i \in 1..Len(log.runs) |-> log.runs[i].job]

\* C1: a gradient returned by __call__ was assembled from an adjoint run and
\* a forward run both executed on the coefficients that are current when the
\* call returns, and that forward run completed after the most recent update.
C1_NoStaleGradient ==
    (IsQuery /\ Returned /\ last.out.gradf # None) =>
        /\ last.out.gradf = Gradf(design_coeffs, design_coeffs)
        /\ fwd_data = design_coeffs
        /\ fwd_fresh

\* C1 witness: after an update, a gradient-only call returned a gradient
\* that reuses the forward run of an earlier call.
C1_Witness ==
    /\ IsQuery /\ Returned /\ last.out.gradf # None
    /\ ~last.need_value /\ ~last.updated
    /\ beta_vector \in Coeffs

\* C2: right after every coefficient update, made by update_design directly
\* or as the first step of __call__, the Run State is reset.
C2_UpdateResets ==
    /\ last.updated => last.mid_state = "reset"
    /\ last.op = "update_design" => state = "reset"

\* C2 witness: a call that updated the design of an adjoint-complete
\* problem, and then ran it to adjoint-complete again.
C2_Witness ==
    /\ IsQuery /\ last.updated
    /\ last.pre_state = "adjoint.complete"
    /\ last.mid_state = "reset"
    /\ state = "adjoint.complete"

\* C3: a gradient-only call made while the Run State is reset warns, runs
\* forward then adjoint, and returns a gradient for the current coefficients.
C3_GradientOnlyOnResetWarns ==
    (IsQuery /\ ~last.need_value /\ last.need_gradient
        /\ last.mid_state = "reset" /\ ~DriverFailed) =>
        /\ Returned
        /\ last.warned
        /\ RunJobs(last) = <<"forward", "adjoint">>
        /\ last.out.gradf = Gradf(design_coeffs, design_coeffs)

\* C4: a gradient-only call that follows a value-only call, with no update
\* in between, drives no forward run: it drives the adjoint run alone, on
\* the forward data the value-only call recorded, and returns its gradient.
C4_GradientOnlyReusesForward ==
    [][ ( /\ last.op = "__call__" /\ last.out.kind = "return"
          /\ last.need_value /\ ~last.need_gradient
          /\ last'.op = "__call__" /\ ~last'.updated
          /\ ~last'.need_value /\ last'.need_gradient
          /\ ~(last'.out.kind = "raise" /\ last'.out.exc = "RunFailure") )
        => ( /\ RunJobs(last') = <<"adjoint">>
             /\ fwd_data' = fwd_data
             /\ last'.out.kind = "return"
             /\ last'.out.gradf = Gradf(fwd_data, design_coeffs) ) ]_vars

\* C4 witness: a gradient-only call on a forward-complete problem returned
\* a gradient and left the problem adjoint-complete.
C4_Witness ==
    /\ IsQuery /\ Returned
    /\ ~last.need_value /\ last.need_gradient /\ ~last.updated
    /\ last.pre_state = "forward.complete"
    /\ state = "adjoint.complete"
    /\ RunJobs(last) = <<"adjoint">>

\* C5: update_design given both arguments, or neither, is rejected with an
\* error and leaves the coefficients, the design function and the Run State
\* as they were.
C5_ConflictingUpdateRejected ==
    [][ (last'.op = "update_design"
          /\ ((last'.beta_arg # None) <=> last'.has_design))
        => ( /\ last'.out.kind = "raise"
             /\ beta_vector' = beta_vector
             /\ design_coeffs' = design_coeffs
             /\ state' = state ) ]_vars

\* C6: a call that asks for neither value nor gradient and supplies no new
\* design drives no run, leaves the Run State unchanged and returns
\* (None, None), in every Run State.
C6_NeitherIsNoOp ==
    (IsQuery /\ ~last.need_value /\ ~last.need_gradient
        /\ last.beta_arg = None /\ ~last.has_design) =>
        /\ last.runs = <<>>
        /\ state = last.pre_state
        /\ last.out = Return(None, None)

C8_FullQueryWithNewCoefficients ==
    (IsQuery /\ last.beta_arg # None /\ last.need_value /\ last.need_gradient
        /\ ~DriverFailed) =>
        /\ Returned
        /\ ~last.has_design => design_coeffs = last.beta_arg
        /\ beta_vector = design_coeffs
        /\ RunJobs(last) = <<"forward", "adjoint">>
        /\ \A i \in 1..Len(last.runs) : last.runs[i].on = design_coeffs
        /\ last.runs[1].at = "reset"
        /\ last.out.fq = Fq(design_coeffs)
        /\ last.out.gradf = Gradf(design_coeffs, design_coeffs)
        /\ state = "adjoint.complete"

\* C8 witness: such a call on an adjoint-complete problem, with coefficients
\* that differ from those of the forward data two calls ago.
C8_Witness ==
    /\ IsQuery /\ Returned
    /\ last.beta_arg # None /\ ~last.has_design
    /\ last.need_value /\ last.need_gradient
    /\ last.pre_state = "adjoint.complete"
    /\ state = "adjoint.complete"
    /\ adj_data = Gradf(last.beta_arg, last.beta_arg)

\* C9 as stated: after a call in which a Run Driver execution failed, the
\* failure is raised and the Run State is the one from before the call.
C9_StateAtPreCallValue ==
    (IsQuery /\ DriverFailed) => state = last.pre_state

\* C9 amended: after a call in which a Run Driver execution failed, the
\* failure is raised and the Run State is the one from just before the
\* failing run: reset when the call updated the design and its forward run
\* failed, forward-complete when its adjoint run failed after its forward
\* run, and the pre-call state otherwise.
C9_StateAtPreRunValue ==
    (IsQuery /\ last.out.kind = "raise" /\ last.out.exc # "NameError") =>
        LET n == Len(last.runs) IN
        /\ last.out = Raise("RunFailure")
        /\ n >= 1 /\ ~last.runs[n].ok
        /\ \A i \in 1..(n - 1) : last.runs[i].ok
        /\ state = last.runs[n].at
        /\ state = IF n = 2 THEN "forward.complete"
                   ELSE IF last.updated THEN "reset"
                   ELSE last.pre_state

\* C9 witness: a call that updated an adjoint-complete problem, completed
\* its forward run and failed in its adjoint run.
C9_Witness ==
    /\ IsQuery /\ DriverFailed
    /\ last.updated /\ last.pre_state = "adjoint.complete"
    /\ Len(last.runs) = 2
    /\ state = "forward.complete"

\* C10: of two successive calls with need_gradient true, the second without
\* an update and neither with a failing run, both return a gradient and the
\* two gradients are equal, whatever need_value is in each.
C10_RepeatedGradientEqual ==
    [][ ( /\ last.op = "__call__" /\ last.need_gradient
          /\ ~(last.out.kind = "raise" /\ last.out.exc = "RunFailure")
          /\ last'.op = "__call__" /\ last'.need_gradient /\ ~last'.updated
          /\ ~(last'.out.kind = "raise" /\ last'.out.exc = "RunFailure") )
        => ( /\ last.out.kind = "return"
             /\ last'.out.kind = "return"
             /\ last'.out.gradf # None
             /\ last'.out.gradf = last.out.gradf ) ]_vars

\* C11: f_func(beta) returns the objective value for beta and df_func(beta)
\* the objective gradient for beta, whatever design was current before the
\* call and whether or not f_func(beta) was called first.
C11_FdfForGivenBeta ==
    /\ (last.op = "f_func" /\ last.beta_arg # None /\ Returned) =>
           last.out.fq = Fq(last.beta_arg)
    /\ (last.op = "df_func" /\ last.beta_arg # None /\ Returned) =>
           last.out.gradf = Gradf(last.beta_arg, last.beta_arg)

\* the Run State says a forward run was completed
ForwardDone == state \in {"forward.complete", "adjoint.complete"}

\* C12: for a design that has a coefficient vector: when the Run State is
\* forward-complete or adjoint-complete, the forward data in the recorders
\* was recorded for the current coefficients; when it is adjoint-complete,
\* the last adjoint run was made on that forward data and on the current
\* coefficients.
C12_CompleteMeansCurrent ==
    design_coeffs \in Coeffs =>
        /\ ForwardDone => fwd_data = design_coeffs
        /\ state = "adjoint.complete" =>
               adj_data = Gradf(design_coeffs, design_coeffs)

\* the number of runs of a kind in the run log of a call
CountRuns(log, job) == Cardinality({i \in 1..Len(log.runs) : log.runs[i].job = job})

\* the step is a call of __call__ in which no Run Driver execution failed
CallStep(log) ==
    /\ log.op = "__call__"
    /\ ~(log.out.kind = "raise" /\ log.out.exc = "RunFailure")

\* C13: a value-only call made while the Run State is adjoint-complete runs
\* the forward simulation again and leaves the state forward-complete; the
\* next gradient request on the unchanged design runs the adjoint
\* simulation anew, on the new forward data, and returns its gradient.
C13_ForwardRerunStartsFreshCycle ==
    [][ /\ ( /\ state = "adjoint.complete"
             /\ CallStep(last') /\ ~last'.updated
             /\ last'.need_value /\ ~last'.need_gradient )
           => ( /\ RunJobs(last') = <<"forward">>
                /\ state' = "forward.complete"
                /\ last'.out.kind = "return"
                /\ last'.out.fq = Fq(design_coeffs) )
        /\ ( /\ CallStep(last) /\ last.out.kind = "return"
             /\ last.need_value /\ ~last.need_gradient
             /\ last.pre_state = "adjoint.complete" /\ ~last.updated
             /\ CallStep(last') /\ ~last'.updated /\ last'.need_gradient )
           => ( /\ CountRuns(last', "adjoint") = 1
                /\ last'.runs[Len(last'.runs)].job = "adjoint"
                /\ last'.runs[Len(last'.runs)].at = "forward.complete"
                /\ last'.out.kind = "return"
                /\ last'.out.gradf = Gradf(fwd_data', design_coeffs)
                /\ adj_data' = last'.out.gradf
                /\ state' = "adjoint.complete" ) ]_vars

\* C13 witness: a value-only call on an adjoint-complete problem returned
\* and left it forward-complete.
C13_Witness ==
    /\ IsQuery /\ Returned /\ ~last.updated
    /\ last.need_value /\ ~last.need_gradient
    /\ last.pre_state = "adjoint.complete"
    /\ state = "forward.complete"

\* C14: a call in which no run fails drives exactly one forward run when
\* need_value is true, exactly one adjoint run when need_gradient is true,
\* and never more than one run of each kind.
C14_OneRunPerFlag ==
    (IsQuery /\ ~DriverFailed) =>
        /\ last.need_value => CountRuns(last, "forward") = 1
        /\ last.need_gradient => CountRuns(last, "adjoint") = 1
        /\ CountRuns(last, "forward") <= 1
        /\ CountRuns(last, "adjoint") <= 1
        /\ Len(last.runs) = CountRuns(last, "forward") + CountRuns(last, "adjoint")

\* C15: after construction and after every update the coefficients held by
\* the design function are the facade's coefficient vector: the beta_vector
\* given to the constructor at first, a projection of a design function
\* (which the expansion of the coefficients projects back to) when a design
\* function is supplied to an update.
C15_FunctionInducedByCoefficients ==
    /\ beta_vector = design_coeffs
    /\ last.op = "__init__" => design_coeffs = last.beta_arg
    /\ (last.op = "update_design" /\ last.has_design) =>
           /\ beta_vector \in {project(d) : d \in DesignFns}
           /\ project(expand(beta_vector)) = beta_vector

\* C16: within a call the runs are made one after the other, forward
\* first: when a call drives both runs, the forward run has completed and
\* the Run State is forward-complete when the adjoint run starts, and both
\* run on the same design, the one current when the call ends.
C16_ForwardCompletesBeforeAdjoint ==
    IsQuery =>
        /\ Len(last.runs) <= 2
        /\ (last.need_value /\ last.need_gradient /\ Returned) => Len(last.runs) = 2
        /\ Len(last.runs) = 2 =>
              /\ RunJobs(last) = <<"forward", "adjoint">>
              /\ last.runs[1].ok
              /\ last.runs[1].at = last.mid_state
              /\ last.runs[2].at = "forward.complete"
              /\ last.runs[1].on = design_coeffs
              /\ last.runs[2].on = design_coeffs

\* C16 witness: a call that drove both runs on an adjoint-complete problem
\* without updating it.
C16_Witness ==
    /\ IsQuery /\ Returned /\ ~last.updated
    /\ Len(last.runs) = 2
    /\ last.pre_state = "adjoint.complete"
    /\ last.runs[2].at = "forward.complete"

\* C18: a call that supplies neither coefficients nor a design function
\* leaves the coefficient vector and the design function as they were and
\* decides its runs on the Run State it found; a call that supplies one of
\* them updates the design.
C18_NoArgumentsNoUpdate ==
    [][ last'.op = "__call__" =>
          /\ (last'.beta_arg = None /\ ~last'.has_design) =>
                /\ ~last'.updated
                /\ beta_vector' = beta_vector
                /\ design_coeffs' = design_coeffs
                /\ last'.mid_state = state
          /\ (last'.beta_arg # None \/ last'.has_design) =>
                /\ last'.updated
                /\ last'.mid_state = "reset" ]_vars

\* C18 witness: a call without arguments on an adjoint-complete problem
\* with stored coefficients ran forward and adjoint again.
C18_Witness ==
    /\ IsQuery /\ Returned
    /\ last.beta_arg = None /\ ~last.has_design /\ ~last.updated
    /\ beta_vector \in Coeffs
    /\ last.pre_state = "adjoint.complete"
    /\ last.need_value /\ last.need_gradient

\* C17: a gradient-only call made after visualize() has prepared the
\* forward run of a reset design, so that no forward run has completed for
\* the current coefficients, still runs forward before adjoint and returns
\* a gradient for the current coefficients.
C17_SafeguardAfterVisualize ==
    (IsQuery /\ ~last.need_value /\ last.need_gradient
        /\ last.mid_state = "forward.prepared" /\ ~DriverFailed
        /\ design_coeffs \in Coeffs) =>
        /\ RunJobs(last) = <<"forward", "adjoint">>
        /\ Returned
        /\ last.out.gradf = Gradf(design_coeffs, design_coeffs)

====
